---- MODULE Spec2Model ----
(***************************************************************************)
(* DHT11 one-wire readout (dht11/src/lib.rs): the handshake, the level     *)
(* wait, the bit sampler, frame assembly, checksum validation and the      *)
(* conversion to a reading, run against a pin and a clock.                 *)
(*                                                                         *)
(* Levels are booleans: TRUE is high, FALSE is low (as the `level`         *)
(* parameter of wait_for_level).  Arrays are 1-based here: bits[k + 1] is  *)
(* the source's bits[k].  A reading's f64 fields are kept exactly, in      *)
(* tenths: integral + decimal / 10.0 is the value (10 * integral +         *)
(* decimal) / 10; the rounding of f64 is not modelled.                     *)
(***************************************************************************)
EXTENDS Integers, Sequences, FiniteSets, TLC

VARIABLES
    pc,            \* position of the program
    caller,        \* the function that called wait_for_level: "init" | "read_bit"
    step,          \* which of the caller's level waits is running (1, 2, 3)
    level,         \* wait_for_level: the level parameter
    timeout,       \* wait_for_level: the local `timeout`
    t_entry,       \* wait_for_level: the clock value read at entry
    last_time,     \* the value the latest get_time_us() call returned
    start_time,    \* dht11_read_bit: the local `start_time`
    elapsed_time,  \* dht11_read_bit: the local `elapsed_time`
    bits,          \* dht11_perform_readout: the array `bits`
    bit_idx,       \* dht11_perform_readout: how many bits the for loop has stored
    raw_data,      \* dht11_perform_readout: the local `raw_data`
    result,        \* how the call ended: "none" while it runs
    readout,       \* the Dht11Readout returned with Ok
    now,           \* the clock, in microseconds
    line,          \* the level on the wire, as the pin reports it
    mode,          \* the pin's mode: "output" | "input"
    frame,         \* the 40 bits the sensor transmits
    edges,         \* how many edges the sensor has produced
    last_edge,     \* the clock at the latest edge (or at the switch to input)
    slow_used,     \* the sensor has produced its one off-nominal edge
    stuck,         \* the line is held low from the switch to input on
    ops,           \* the handshake's pin, wait and wait_for_level calls, in order
    last_seen,     \* the level the line had at the latest pin query
    ok_waits,      \* how many calls of wait_for_level have returned Ok(())
    read_bit_calls, \* how many times dht11_read_bit has been called
    arg,           \* unit tests: the argument of the function under test
    out            \* unit tests: what the function returned

vars == << pc, caller, step, level, timeout, t_entry, last_time, start_time,
           elapsed_time, bits, bit_idx, raw_data, result, readout, now, line,
           mode, frame, edges, last_edge, slow_used, stuck, ops, last_seen,
           ok_waits, read_bit_calls, arg, out >>

progVars == << pc, caller, step, level, timeout, t_entry, last_time,
               start_time, elapsed_time, bits, bit_idx, raw_data, result,
               readout >>

envVars == << frame, edges, last_edge, slow_used >>

\* what the calls made so far are recorded in
logVars == << ops, last_seen, ok_waits, read_bit_calls >>

testVars == << arg, out >>

(***************************************************************************)
(* Program constants.                                                      *)
(***************************************************************************)
DHT11_STARTING_TIME_US == 20000

DHT11_WAIT_FOR_START_US == 10

DHT11_STATE_CHANGE_TIMEOUT_US == 1000000

\* assert!(time < 1000000) in convert_time_to_bit
TIME_LIMIT_US == 1000000

\* if time < 50 in convert_time_to_bit
BIT_THRESHOLD_US == 50

\* let mut bits: [bool; 40]
NUM_BITS == 40

\* u8
U8_MOD == 256

(***************************************************************************)
(* Bounds of the model.                                                    *)
(***************************************************************************)
\* the clock starts at 0 .. MaxStart
MaxStart == 0

\* the first VarEdges sensor edges may come after an off-nominal duration
VarEdges == 5

\* the clock is followed up to 1 + MaxOvershoot microseconds past a deadline
MaxOvershoot == 1

(***************************************************************************)
(* Pure functions of the program.                                          *)
(***************************************************************************)
\* result += w on a u8 (an overflow would wrap in a release build)
AddU8(result_, w) == (result_ + w) % U8_MOD

\* result |= 1 on a u8
OrOne(result_) == IF result_ % 2 = 1 THEN result_ ELSE result_ + 1

\* bits_to_u8 with the weights in the opposite order (least significant first)
bits_to_u8_lsb_first(b) ==
    LET r0 == 0
        r1 == IF b[1] THEN OrOne(r0) ELSE r0
        r2 == IF b[2] THEN AddU8(r1, 2) ELSE r1
        r3 == IF b[3] THEN AddU8(r2, 4) ELSE r2
        r4 == IF b[4] THEN AddU8(r3, 8) ELSE r3
        r5 == IF b[5] THEN AddU8(r4, 16) ELSE r4
        r6 == IF b[6] THEN AddU8(r5, 32) ELSE r5
        r7 == IF b[7] THEN AddU8(r6, 64) ELSE r6
        r8 == IF b[8] THEN AddU8(r7, 128) ELSE r7
    IN  r8

\* bits_to_u8: b is a sequence of 8 booleans
bits_to_u8(b) ==
    LET r0 == 0
        r1 == IF b[1] THEN AddU8(r0, 128) ELSE r0
        r2 == IF b[2] THEN AddU8(r1, 64) ELSE r1
        r3 == IF b[3] THEN AddU8(r2, 32) ELSE r2
        r4 == IF b[4] THEN AddU8(r3, 16) ELSE r3
        r5 == IF b[5] THEN AddU8(r4, 8) ELSE r4
        r6 == IF b[6] THEN AddU8(r5, 4) ELSE r5
        r7 == IF b[7] THEN AddU8(r6, 2) ELSE r6
        r8 == IF b[8] THEN OrOne(r7) ELSE r7
    IN  r8

\* &bits[lo..hi] of the source: elements lo .. hi-1 (0-based), as a sequence
Slice(b, lo, hi) == [i \in 1..(hi - lo) |-> b[lo + i]]

\* Dht11RawData::new taking the five bytes from the array back to front
Dht11RawData_new_last_byte_first(b) ==
    [ integral_rh_data |-> bits_to_u8(Slice(b, 32, 40)),
      decimal_rh_data  |-> bits_to_u8(Slice(b, 24, 32)),
      integral_t_data  |-> bits_to_u8(Slice(b, 16, 24)),
      decimal_t_data   |-> bits_to_u8(Slice(b, 8, 16)),
      checksum         |-> bits_to_u8(Slice(b, 0, 8)) ]

\* Dht11RawData::new
Dht11RawData_new(b) ==
    [ integral_rh_data |-> bits_to_u8(Slice(b, 0, 8)),
      decimal_rh_data  |-> bits_to_u8(Slice(b, 8, 16)),
      integral_t_data  |-> bits_to_u8(Slice(b, 16, 24)),
      decimal_t_data   |-> bits_to_u8(Slice(b, 24, 32)),
      checksum         |-> bits_to_u8(Slice(b, 32, 40)) ]

\* is_checksum_correct with decimal_t_data left out of the sum
is_checksum_correct_three_bytes(d) ==
    LET sum == d.integral_rh_data + d.decimal_rh_data + d.integral_t_data
        checksum == (sum % 256) % U8_MOD
    IN  d.checksum = checksum

\* is_checksum_correct with the bytes added as u8, saturating at 255
is_checksum_correct_saturating(d) ==
    LET sum == d.integral_rh_data + d.decimal_rh_data
               + d.integral_t_data + d.decimal_t_data
        checksum == IF sum > 255 THEN 255 ELSE sum
    IN  d.checksum = checksum

\* Dht11RawData::is_checksum_correct: the sum is taken in u32 (four bytes sum
\* to 1020 at most, far below 2^32: the u32 never wraps), then % 256 as u8
is_checksum_correct(d) ==
    LET sum == d.integral_rh_data + d.decimal_rh_data
               + d.integral_t_data + d.decimal_t_data
        checksum == (sum % 256) % U8_MOD
    IN  d.checksum = checksum

\* Dht11Readout::new with the temperature's decimal taken from the humidity's
Dht11Readout_new_wrong_decimal(d) ==
    [ humidity    |-> 10 * d.integral_rh_data + d.decimal_rh_data,
      temperature |-> 10 * d.integral_t_data + d.decimal_rh_data ]

\* Dht11Readout::new keeping one decimal digit of each decimal byte
Dht11Readout_new_one_digit(d) ==
    [ humidity    |-> 10 * d.integral_rh_data + (d.decimal_rh_data % 10),
      temperature |-> 10 * d.integral_t_data + (d.decimal_t_data % 10) ]

\* Dht11Readout::new, in tenths
Dht11Readout_new(d) ==
    [ humidity    |-> 10 * d.integral_rh_data + d.decimal_rh_data,
      temperature |-> 10 * d.integral_t_data + d.decimal_t_data ]

\* assert!(time < 1000000) in convert_time_to_bit: TRUE when it passes
time_in_range(time) == time < TIME_LIMIT_US

\* convert_time_to_bit, past its assertion
convert_time_to_bit(time) == IF time < BIT_THRESHOLD_US THEN FALSE ELSE TRUE

NoRaw == [ integral_rh_data |-> 0, decimal_rh_data |-> 0, integral_t_data |-> 0,
           decimal_t_data |-> 0, checksum |-> 0 ]

NoReadout == [ humidity |-> -1, temperature |-> -1 ]

\* unit tests: no argument yet, nothing returned yet
NoArg == [ fn |-> "none", bits8 |-> << >>, raw |-> NoRaw ]

NoOut == [ done |-> FALSE, byte |-> 0, flag |-> FALSE, reading |-> NoReadout ]

(***************************************************************************)
(* The sensor and the clock.                                               *)
(*                                                                         *)
(* The sensor transmits `frame`: after the host has switched to input it   *)
(* pulls the line low, high and low again, then for every bit high (the    *)
(* pulse whose length carries the bit) and low.  An edge comes a nominal   *)
(* duration after the one before it; one of the first VarEdges edges may   *)
(* come after any of the durations in Marks instead, and a sensor that     *)
(* misses its moment stays silent; a line may also be low when the host    *)
(* releases it and stay low for good.  The clock advances while the        *)
(* program polls for a level the line does not have (the program polls     *)
(* tightly: its own steps take no time), in jumps from one mark to a later *)
(* one.                                                                    *)
(***************************************************************************)
\* most-significant-bit-first bits of a byte, as the sensor sends them
ByteBits(b) == [i \in 1..8 |-> ((b \div (2 ^ (8 - i))) % 2) = 1]

FrameOf(b0, b1, b2, b3, c) ==
    ByteBits(b0) \o ByteBits(b1) \o ByteBits(b2) \o ByteBits(b3) \o ByteBits(c)

\* the data bytes the sensor may hold
DataSamples ==
    { <<48, 0, 23, 8>>, <<0, 0, 0, 0>>, <<255, 255, 255, 255>>,
      <<170, 85, 1, 2>> }

\* what the sensor adds to the right checksum: 0 for an intact frame
ChecksumOffsets == {0, 1}

Frames ==
    { FrameOf(d[1], d[2], d[3], d[4], (d[1] + d[2] + d[3] + d[4] + o) % 256) :
        d \in DataSamples, o \in ChecksumOffsets }

\* durations, in microseconds since the latest edge, the clock stops at
Marks ==
    { 1, BIT_THRESHOLD_US - 1, BIT_THRESHOLD_US, TIME_LIMIT_US - 1,
      DHT11_STATE_CHANGE_TIMEOUT_US }
    \cup { DHT11_STATE_CHANGE_TIMEOUT_US + i : i \in 1..(1 + MaxOvershoot) }

\* edges 1, 2, 3 answer the handshake; bit j (0-based) rises at edge 4 + 2j
\* and falls at edge 5 + 2j
NumEdges == 3 + 2 * NUM_BITS

IsDataFall(e) == e >= 5 /\ e % 2 = 1

BitOfEdge(e) == (e - 5) \div 2

NominalDuration(e) ==
    IF IsDataFall(e)
    THEN (IF frame[BitOfEdge(e) + 1] THEN BIT_THRESHOLD_US ELSE BIT_THRESHOLD_US - 1)
    ELSE 1

\* the durations after which edge e may come
Durations(e) ==
    {NominalDuration(e)}
    \cup (IF e <= VarEdges /\ ~slow_used
          THEN (IF IsDataFall(e)
                THEN { m \in Marks : \/ m >= TIME_LIMIT_US
                                     \/ (m >= BIT_THRESHOLD_US) = frame[BitOfEdge(e) + 1] }
                ELSE Marks)
          ELSE {})

Polling == pc \in {"w_poll", "w_time"}

\* the clock advances
Tick ==
    /\ Polling
    /\ line # level
    /\ \E m \in Marks :
        /\ last_edge + m > now
        /\ now' = last_edge + m
    /\ UNCHANGED << progVars, envVars, logVars, testVars, line, mode, stuck >>

\* the sensor changes the level of the line
SensorEdge ==
    /\ mode = "input"
    /\ ~stuck
    /\ result = "none"
    /\ edges < NumEdges
    /\ (now - last_edge) \in Durations(edges + 1)
    /\ line' = ~line
    /\ edges' = edges + 1
    /\ last_edge' = now
    /\ slow_used' = (slow_used \/ (now - last_edge) # NominalDuration(edges + 1))
    /\ UNCHANGED << progVars, logVars, testVars, now, mode, frame, stuck >>

\* the line is low when the host lets go of it and stays low (a shorted line,
\* or a sensor that never releases it)
LineHeldLow ==
    /\ pc = "w_entry"
    /\ caller = "init"
    /\ step = 1
    /\ mode = "input"
    /\ edges = 0
    /\ ~stuck
    /\ line' = FALSE
    /\ stuck' = TRUE
    /\ UNCHANGED << progVars, envVars, logVars, testVars, now, mode >>

(***************************************************************************)
(* The pin and timing capabilities, as main.rs implements them.            *)
(***************************************************************************)
\* Dht11Pin::is_high
is_high == line = TRUE

\* Dht11Pin::is_low
is_low == line = FALSE

(***************************************************************************)
(* dht11_init_readout                                                      *)
(***************************************************************************)
\* the program's other locals, untouched by the handshake's pin and wait steps
locals == << caller, step, level, timeout, t_entry, last_time, start_time,
             elapsed_time, bits, bit_idx, raw_data, result, readout >>

\* pin.set_mode_output()
InitSetModeOutput ==
    /\ pc = "set_mode_output"
    /\ ops' = Append(ops, << "set_mode_output", 0 >>)
    /\ UNCHANGED << last_seen, ok_waits, read_bit_calls, stuck >>
    /\ mode' = "output"
    /\ pc' = "set_high_1"
    /\ UNCHANGED << locals, envVars, testVars, now, line >>

\* pin.set_high()
InitSetHigh ==
    /\ pc = "set_high_1"
    /\ ops' = Append(ops, << "set_high", 0 >>)
    /\ UNCHANGED << last_seen, ok_waits, read_bit_calls, stuck >>
    /\ line' = TRUE
    /\ pc' = "set_low"
    /\ UNCHANGED << locals, envVars, testVars, now, mode >>

\* pin.set_low()
InitSetLow ==
    /\ pc = "set_low"
    /\ ops' = Append(ops, << "set_low", 0 >>)
    /\ UNCHANGED << last_seen, ok_waits, read_bit_calls, stuck >>
    /\ line' = FALSE
    /\ pc' = "wait_start"
    /\ UNCHANGED << locals, envVars, testVars, now, mode >>

\* timing.wait(DHT11_STARTING_TIME_US)
InitWaitStart ==
    /\ pc = "wait_start"
    /\ ops' = Append(ops, << "wait", DHT11_STARTING_TIME_US >>)
    /\ UNCHANGED << last_seen, ok_waits, read_bit_calls, stuck >>
    /\ now' = now + DHT11_STARTING_TIME_US
    /\ pc' = "set_high_2"
    /\ UNCHANGED << locals, envVars, testVars, line, mode >>

\* the release step driving the line low instead of high
InitSetHighAgain_drives_low ==
    /\ pc = "set_high_2"
    /\ ops' = Append(ops, << "set_low", 0 >>)
    /\ UNCHANGED << last_seen, ok_waits, read_bit_calls, stuck >>
    /\ line' = FALSE
    /\ pc' = "wait_release"
    /\ UNCHANGED << locals, envVars, testVars, now, mode >>

\* pin.set_high()
InitSetHighAgain ==
    /\ pc = "set_high_2"
    /\ ops' = Append(ops, << "set_high", 0 >>)
    /\ UNCHANGED << last_seen, ok_waits, read_bit_calls, stuck >>
    /\ line' = TRUE
    /\ pc' = "wait_release"
    /\ UNCHANGED << locals, envVars, testVars, now, mode >>

\* timing.wait(DHT11_WAIT_FOR_START_US)
InitWaitRelease ==
    /\ pc = "wait_release"
    /\ ops' = Append(ops, << "wait", DHT11_WAIT_FOR_START_US >>)
    /\ UNCHANGED << last_seen, ok_waits, read_bit_calls, stuck >>
    /\ now' = now + DHT11_WAIT_FOR_START_US
    /\ pc' = "set_mode_input"
    /\ UNCHANGED << locals, envVars, testVars, line, mode >>

\* the handshake going to its level waits without switching the pin to input
InitSetModeInput_stays_output ==
    /\ pc = "set_mode_input"
    /\ UNCHANGED << ops, mode >>
    /\ UNCHANGED << last_seen, ok_waits, read_bit_calls, stuck >>
    /\ last_edge' = now
    /\ caller' = "init"
    /\ step' = 1
    /\ level' = FALSE
    /\ pc' = "w_entry"
    /\ UNCHANGED << timeout, t_entry, last_time, start_time, elapsed_time, bits,
                    bit_idx, raw_data, result, readout, frame, edges, slow_used,
                    testVars, now, line >>

\* pin.set_mode_input(), then the call of wait_for_level(false, ..)
InitSetModeInput ==
    /\ pc = "set_mode_input"
    /\ ops' = Append(ops, << "set_mode_input", 0 >>)
    /\ UNCHANGED << last_seen, ok_waits, read_bit_calls, stuck >>
    /\ mode' = "input"
    /\ last_edge' = now
    /\ caller' = "init"
    /\ step' = 1
    /\ level' = FALSE
    /\ pc' = "w_entry"
    /\ UNCHANGED << timeout, t_entry, last_time, start_time, elapsed_time, bits,
                    bit_idx, raw_data, result, readout, frame, edges, slow_used,
                    testVars, now, line >>

(***************************************************************************)
(* wait_for_level                                                          *)
(***************************************************************************)
\* the deadline with the timeout taken in milliseconds
WaitDeadline_millis(t) == t + (DHT11_STATE_CHANGE_TIMEOUT_US \div 1000)

\* let timeout = timing.get_time_us() + DHT11_STATE_CHANGE_TIMEOUT_US as u128
WaitDeadline(t) == t + DHT11_STATE_CHANGE_TIMEOUT_US

WaitEntry ==
    /\ pc = "w_entry"
    /\ t_entry' = now
    /\ last_time' = now
    /\ timeout' = WaitDeadline(now)
    /\ pc' = "w_poll"
    /\ ops' = IF caller = "init"
              THEN Append(ops, << "wait_for_level", IF level THEN 1 ELSE 0 >>)
              ELSE ops
    /\ UNCHANGED << last_seen, ok_waits, read_bit_calls, stuck >>
    /\ UNCHANGED << caller, step, level, start_time, elapsed_time, bits, bit_idx,
                    raw_data, result, readout, envVars, testVars, now, line, mode >>

\* the level test satisfied by either level
LevelReached_either_level(lv) == is_high = TRUE \/ is_low = TRUE

\* if level { pin.is_high() } else { pin.is_low() }
LevelReached(lv) == IF lv THEN is_high = TRUE ELSE is_low = TRUE

\* the handshake returning after its wait for high, its last wait left out
AfterWait_two_waits ==
    IF caller = "init"
    THEN (IF step < 2 THEN "w_entry" ELSE "for_bits")
    ELSE (IF step = 1 THEN "rb_start_time" ELSE "rb_elapsed")

\* where the program goes when wait_for_level returns Ok(())
AfterWait ==
    IF caller = "init"
    THEN (IF step < 3 THEN "w_entry" ELSE "for_bits")
    ELSE (IF step = 1 THEN "rb_start_time" ELSE "rb_elapsed")

\* one poll of the pin; on the target level, return Ok(()) to the caller,
\* which calls the next wait (with the other level) or goes on
WaitPoll ==
    /\ pc = "w_poll"
    /\ last_seen' = IF is_high THEN "high" ELSE "low"
    /\ ok_waits' = IF LevelReached(level) THEN ok_waits + 1 ELSE ok_waits
    /\ UNCHANGED << ops, read_bit_calls, stuck >>
    /\ IF LevelReached(level)
       THEN /\ pc' = AfterWait
            /\ step' = IF AfterWait = "w_entry" THEN step + 1 ELSE step
            /\ level' = IF AfterWait = "w_entry" THEN ~level ELSE level
       ELSE /\ pc' = "w_time"
            /\ UNCHANGED << step, level >>
    /\ UNCHANGED << caller, timeout, t_entry, last_time, start_time, elapsed_time,
                    bits, bit_idx, raw_data, result, readout, envVars, testVars,
                    now, line, mode >>

\* the timeout test one microsecond late
TimedOut_one_late(t, deadline) == t > deadline + 1

\* if timing.get_time_us() > timeout
TimedOut(t, deadline) == t > deadline

\* the loop noting the timeout and polling on
WaitCheckTime_polls_on ==
    /\ pc = "w_time"
    /\ last_time' = now
    /\ UNCHANGED << logVars, stuck >>
    /\ IF TimedOut(now, timeout)
       THEN /\ result' = "Timeout"
            /\ pc' = "w_poll"
       ELSE /\ pc' = "w_poll"
            /\ UNCHANGED result
    /\ UNCHANGED << caller, step, level, timeout, t_entry, start_time,
                    elapsed_time, bits, bit_idx, raw_data, readout, envVars,
                    testVars, now, line, mode >>

\* the clock read of the loop; Timeout goes up through every `?` to the caller
\* of dht11_perform_readout
WaitCheckTime ==
    /\ pc = "w_time"
    /\ last_time' = now
    /\ UNCHANGED << logVars, stuck >>
    /\ IF TimedOut(now, timeout)
       THEN /\ result' = "Timeout"
            /\ pc' = "done"
       ELSE /\ pc' = "w_poll"
            /\ UNCHANGED result
    /\ UNCHANGED << caller, step, level, timeout, t_entry, start_time,
                    elapsed_time, bits, bit_idx, raw_data, readout, envVars,
                    testVars, now, line, mode >>

(***************************************************************************)
(* dht11_read_bit and the loop of dht11_perform_readout                    *)
(***************************************************************************)
\* the loop leaving the last element of the array unsampled
ForBits_one_short ==
    /\ pc = "for_bits"
    /\ read_bit_calls' = IF bit_idx < NUM_BITS - 1 THEN read_bit_calls + 1 ELSE read_bit_calls
    /\ UNCHANGED << ops, last_seen, ok_waits, stuck >>
    /\ IF bit_idx < NUM_BITS - 1
       THEN /\ caller' = "read_bit"
            /\ step' = 1
            /\ level' = TRUE
            /\ pc' = "w_entry"
       ELSE /\ pc' = "validate"
            /\ UNCHANGED << caller, step, level >>
    /\ UNCHANGED << timeout, t_entry, last_time, start_time, elapsed_time, bits,
                    bit_idx, raw_data, result, readout, envVars, testVars, now,
                    line, mode >>

\* for bit in bits.iter_mut(): the next call of dht11_read_bit, or the end
ForBits ==
    /\ pc = "for_bits"
    /\ read_bit_calls' = IF bit_idx < NUM_BITS THEN read_bit_calls + 1 ELSE read_bit_calls
    /\ UNCHANGED << ops, last_seen, ok_waits, stuck >>
    /\ IF bit_idx < NUM_BITS
       THEN /\ caller' = "read_bit"
            /\ step' = 1
            /\ level' = TRUE
            /\ pc' = "w_entry"
       ELSE /\ pc' = "validate"
            /\ UNCHANGED << caller, step, level >>
    /\ UNCHANGED << timeout, t_entry, last_time, start_time, elapsed_time, bits,
                    bit_idx, raw_data, result, readout, envVars, testVars, now,
                    line, mode >>

\* let start_time = timing.get_time_us(); then wait_for_level(false, ..)
ReadBitStart ==
    /\ pc = "rb_start_time"
    /\ UNCHANGED << logVars, stuck >>
    /\ start_time' = now
    /\ last_time' = now
    /\ step' = 2
    /\ level' = FALSE
    /\ pc' = "w_entry"
    /\ UNCHANGED << caller, timeout, t_entry, elapsed_time, bits, bit_idx,
                    raw_data, result, readout, envVars, testVars, now, line, mode >>

\* let elapsed_time = timing.get_time_us() - start_time;
\* Ok(convert_time_to_bit(elapsed_time)), stored by *bit = ..
ReadBitElapsed ==
    /\ pc = "rb_elapsed"
    /\ last_time' = now
    /\ UNCHANGED << logVars, stuck >>
    /\ elapsed_time' = now - start_time
    /\ IF time_in_range(now - start_time)
       THEN /\ bits' = [bits EXCEPT ![bit_idx + 1] = convert_time_to_bit(now - start_time)]
            /\ bit_idx' = bit_idx + 1
            /\ pc' = "for_bits"
            /\ UNCHANGED result
       ELSE /\ result' = "panic"
            /\ pc' = "done"
            /\ UNCHANGED << bits, bit_idx >>
    /\ UNCHANGED << caller, step, level, timeout, t_entry, start_time, raw_data,
                    readout, envVars, testVars, now, line, mode >>

\* Dht11RawData::new(&bits), the checksum test, Dht11Readout::new(&raw_data)
Validate ==
    /\ pc = "validate"
    /\ raw_data' = Dht11RawData_new(bits)
    /\ UNCHANGED << logVars, stuck >>
    /\ IF is_checksum_correct(Dht11RawData_new(bits)) = FALSE
       THEN /\ result' = "ChecksumError"
            /\ UNCHANGED readout
       ELSE /\ result' = "Ok"
            /\ readout' = Dht11Readout_new(Dht11RawData_new(bits))
    /\ pc' = "done"
    /\ UNCHANGED << caller, step, level, timeout, t_entry, last_time, start_time,
                    elapsed_time, bits, bit_idx, envVars, testVars, now, line, mode >>

(***************************************************************************)
(* One call of dht11_perform_readout, as main does it.                     *)
(***************************************************************************)
Init ==
    /\ pc = "set_mode_output"
    /\ caller = "init"
    /\ step = 0
    /\ level = FALSE
    /\ timeout = 0
    /\ t_entry = 0
    /\ last_time = 0
    /\ start_time = 0
    /\ elapsed_time = 0
    /\ bits = [i \in 1..NUM_BITS |-> FALSE]
    /\ bit_idx = 0
    /\ raw_data = NoRaw
    /\ result = "none"
    /\ readout = NoReadout
    /\ now \in 0..MaxStart
    /\ line \in BOOLEAN
    /\ mode = "output"
    /\ frame \in Frames
    /\ edges = 0
    /\ last_edge = 0
    /\ slow_used = FALSE
    /\ stuck = FALSE
    /\ ops = << >>
    /\ last_seen = "none"
    /\ ok_waits = 0
    /\ read_bit_calls = 0
    /\ arg = NoArg
    /\ out = NoOut

Program ==
    \/ InitSetModeOutput
    \/ InitSetHigh
    \/ InitSetLow
    \/ InitWaitStart
    \/ InitSetHighAgain
    \/ InitWaitRelease
    \/ InitSetModeInput
    \/ WaitEntry
    \/ WaitPoll
    \/ WaitCheckTime
    \/ ForBits
    \/ ReadBitStart
    \/ ReadBitElapsed
    \/ Validate

Next == Program \/ Tick \/ SensorEdge \/ LineHeldLow

Spec == Init /\ [][Next]_vars

\* the calling thread keeps running and the clock keeps advancing; nothing
\* obliges the sensor to answer
FairSpec == Spec /\ WF_vars(Program) /\ WF_vars(Tick)

(***************************************************************************)
(* The unit tests of lib.rs, over sets of arguments: each calls one pure   *)
(* function once.                                                          *)
(***************************************************************************)
\* the bytes the tests build raw data from
TestBytes == {0, 8, 23, 48, 255}

RawOf(a, b, c, d, e) ==
    [ integral_rh_data |-> a, decimal_rh_data |-> b, integral_t_data |-> c,
      decimal_t_data |-> d, checksum |-> e ]

TestArgs ==
    { [ fn |-> "bits_to_u8", bits8 |-> b, raw |-> NoRaw ] : b \in [1..8 -> BOOLEAN] }
    \cup
    { [ fn |-> "is_checksum_correct", bits8 |-> << >>, raw |-> RawOf(d[1], d[2], d[3], d[4], e) ] :
        d \in DataSamples \cup ({0, 23, 255} \X {0, 23, 255} \X {0, 23, 255} \X {0, 23, 255}),
        e \in 0..255 }
    \cup
    { [ fn |-> "Dht11Readout_new", bits8 |-> << >>, raw |-> RawOf(a, b, c, d, e) ] :
        a \in TestBytes, b \in TestBytes, c \in TestBytes, d \in TestBytes,
        e \in {0, 79, 255} }

InitTest ==
    /\ pc = "test"
    /\ caller = "init"
    /\ step = 0
    /\ level = FALSE
    /\ timeout = 0
    /\ t_entry = 0
    /\ last_time = 0
    /\ start_time = 0
    /\ elapsed_time = 0
    /\ bits = [i \in 1..NUM_BITS |-> FALSE]
    /\ bit_idx = 0
    /\ raw_data = NoRaw
    /\ result = "none"
    /\ readout = NoReadout
    /\ now = 0
    /\ line = FALSE
    /\ mode = "output"
    /\ frame = [i \in 1..NUM_BITS |-> FALSE]
    /\ edges = 0
    /\ last_edge = 0
    /\ slow_used = FALSE
    /\ stuck = FALSE
    /\ ops = << >>
    /\ last_seen = "none"
    /\ ok_waits = 0
    /\ read_bit_calls = 0
    /\ arg \in TestArgs
    /\ out = NoOut

\* test_bits_to_u8
TestBitsToU8 ==
    /\ pc = "test"
    /\ arg.fn = "bits_to_u8"
    /\ out' = [NoOut EXCEPT !.done = TRUE, !.byte = bits_to_u8(arg.bits8)]
    /\ pc' = "tested"
    /\ UNCHANGED << locals, envVars, logVars, arg, now, line, mode, stuck >>

\* a call of is_checksum_correct
TestChecksum ==
    /\ pc = "test"
    /\ arg.fn = "is_checksum_correct"
    /\ out' = [NoOut EXCEPT !.done = TRUE, !.flag = is_checksum_correct(arg.raw)]
    /\ pc' = "tested"
    /\ UNCHANGED << locals, envVars, logVars, arg, now, line, mode, stuck >>

\* conversion_to_readout
TestConversion ==
    /\ pc = "test"
    /\ arg.fn = "Dht11Readout_new"
    /\ out' = [NoOut EXCEPT !.done = TRUE, !.reading = Dht11Readout_new(arg.raw)]
    /\ pc' = "tested"
    /\ UNCHANGED << locals, envVars, logVars, arg, now, line, mode, stuck >>

NextTest == TestBitsToU8 \/ TestChecksum \/ TestConversion

TestSpec == InitTest /\ [][NextTest]_vars

(***************************************************************************)
(* Properties.                                                             *)
(***************************************************************************)
\* the reference most-significant-bit-first packing of b[o + 1 .. o + 8]:
\* plain integer arithmetic, no u8
Weight(b, i, w) == IF b[i] THEN w ELSE 0

RefPack(b, o) ==
    Weight(b, o + 1, 128) + Weight(b, o + 2, 64) + Weight(b, o + 3, 32)
    + Weight(b, o + 4, 16) + Weight(b, o + 5, 8) + Weight(b, o + 6, 4)
    + Weight(b, o + 7, 2) + Weight(b, o + 8, 1)

\* the sampled sequence's checksum byte matches its four data bytes
SampledChecksumMatches ==
    RefPack(bits, 32)
      = (RefPack(bits, 0) + RefPack(bits, 8) + RefPack(bits, 16) + RefPack(bits, 24)) % 256

\* all 40 bits were sampled and the call has ended
FullySampled == pc = "done" /\ bit_idx = NUM_BITS

Returned == result \in {"Ok", "Timeout", "ChecksumError"}

\* C1: a call that sampled all 40 bits (no level wait timed out), and whose
\* fifth packed byte equals the sum of the first four modulo 256, returns a
\* Reading with humidity byte0 + byte1/10 and temperature byte2 + byte3/10
\* (in tenths: 10 * integral + decimal).
C1_MatchingFrameGivesReading ==
    (FullySampled /\ SampledChecksumMatches)
        => /\ result = "Ok"
           /\ readout.humidity = 10 * RefPack(bits, 0) + RefPack(bits, 8)
           /\ readout.temperature = 10 * RefPack(bits, 16) + RefPack(bits, 24)

\* the sensor sent (48, 0, 23, 8, 79) and the call returned 48.0 % and 23.8 C
C1_Witness ==
    /\ FullySampled
    /\ SampledChecksumMatches
    /\ RefPack(bits, 0) = 48
    /\ RefPack(bits, 24) = 8
    /\ result = "Ok"
    /\ readout = [humidity |-> 480, temperature |-> 238]

\* C2: a call that sampled all 40 bits and whose fifth packed byte differs
\* from the sum of the first four modulo 256 returns ChecksumError and no
\* Reading; ChecksumError is returned in no other situation.
C2_ChecksumErrorIffMismatch ==
    pc = "done"
        => /\ (result = "ChecksumError") <=> (bit_idx = NUM_BITS /\ ~SampledChecksumMatches)
           /\ (result = "ChecksumError" => readout = NoReadout)

\* the sensor sent (255, 255, 255, 255, 253): the sum wraps to 252
C2_Witness ==
    /\ FullySampled
    /\ RefPack(bits, 0) = 255
    /\ RefPack(bits, 32) = 253
    /\ result = "ChecksumError"
    /\ readout = NoReadout

\* C3, as claimed: a call that ends, ends in a Reading, in Timeout or in
\* ChecksumError, and in no other way.  (The assertion of convert_time_to_bit
\* is a fourth way out: it fails on an elapsed time of 1,000,000 or more.)
C3_OnlyThreeOutcomes == pc = "done" => Returned

\* C4, as claimed: every call of dht11_perform_readout eventually returns.
\* (Checked with the thread running and the clock advancing; a call that
\* fails the assertion of convert_time_to_bit ends without returning.)
C4_EveryCallReturns == <>Returned

\* every call ends, and with it every level wait: it returns or it aborts
CallEnds == <>(pc = "done")

\* C5: wait_for_level returns Timeout no earlier than 1,000,000 microseconds
\* after the timestamp read at entry, and at the first clock read after the
\* deadline has passed: no clock read of the loop that is past the deadline
\* lets the loop go on.
C5_TimeoutWindow ==
    /\ [](result = "Timeout" => last_time >= t_entry + 1000000)
    /\ [][(pc = "w_time" /\ pc' # "w_time" /\ now > t_entry + 1000000)
            => (result' = "Timeout" /\ last_time' = now)]_vars

\* a wait timed out at the earliest possible clock value, entry + 1,000,001
C5_Witness ==
    /\ result = "Timeout"
    /\ line # level
    /\ last_time = t_entry + 1000001

\* the step in which wait_for_level returns Ok(())
WaitReturnsOk == pc = "w_poll" /\ pc' # "w_poll" /\ pc' # "w_time"

\* C6, as claimed: wait_for_level returns success only when the pin reported
\* the target level no later than entry timestamp + 1,000,000 microseconds.
C6_OkOnlyBeforeDeadline ==
    [][WaitReturnsOk => now <= t_entry + 1000000]_vars

\* C6, amended: wait_for_level returns success only when the pin reported the
\* target level and every clock read the wait made before that poll was at
\* most entry + 1,000,000 (the poll itself may come later than that); it
\* fails with Timeout only on a clock read above entry + 1,000,000.
C6_OkOnlyAfterInTimeReads ==
    /\ [][WaitReturnsOk => (LevelReached(level) /\ last_time <= t_entry + 1000000)]_vars
    /\ [][(pc = "w_time" /\ result' = "Timeout") => now > t_entry + 1000000]_vars

\* a wait has returned success from a poll made after its deadline
C6_Witness ==
    /\ result = "none"
    /\ pc \in {"w_entry", "for_bits", "rb_start_time", "rb_elapsed"}
    /\ step >= 1
    /\ timeout = t_entry + 1000000
    /\ last_time <= timeout
    /\ now > timeout

\* C7, as claimed: the bit sampler gives false for every elapsed time below
\* 50 and true for every elapsed time of 50 or more, elapsed being the clock
\* read after the low level minus the clock read after the high level.
C7_ThresholdClassifies ==
    [][pc = "rb_elapsed"
         => /\ pc' = "for_bits"
            /\ bits'[bit_idx + 1] = (now - start_time >= 50)]_vars

\* C8: bits_to_u8 returns the byte the reference most-significant-bit-first
\* packing returns, within 0..255 (no addition overflows).
C8_PacksMsbFirst ==
    (out.done /\ arg.fn = "bits_to_u8")
        => /\ out.byte = RefPack(arg.bits8, 0)
           /\ out.byte \in 0..255

\* [true,false,true,false,true,false,true,false] gave 170
C8_Witness ==
    /\ out.done
    /\ arg.fn = "bits_to_u8"
    /\ arg.bits8 = << TRUE, FALSE, TRUE, FALSE, TRUE, FALSE, TRUE, FALSE >>
    /\ out.byte = 170

DataSum(d) == d.integral_rh_data + d.decimal_rh_data + d.integral_t_data + d.decimal_t_data

\* C9: is_checksum_correct passes exactly when the checksum byte is the sum
\* of the four data bytes modulo 256: one value of 0..255 passes, every other
\* fails.
C9_ExactlyOneChecksumPasses ==
    (out.done /\ arg.fn = "is_checksum_correct")
        => /\ out.flag = (arg.raw.checksum = DataSum(arg.raw) % 256)
           /\ { c \in 0..255 : is_checksum_correct([arg.raw EXCEPT !.checksum = c]) }
                = { DataSum(arg.raw) % 256 }

\* (48, 0, 23, 8) passed with 79, and (255, 255, 255, 255) is among the
\* arguments: its sum, 1020, wraps to 252
C9_Witness ==
    /\ out.done
    /\ arg.fn = "is_checksum_correct"
    /\ arg.raw = RawOf(48, 0, 23, 8, 79)
    /\ out.flag = TRUE
    /\ is_checksum_correct(RawOf(255, 255, 255, 255, 252))
    /\ ~is_checksum_correct(RawOf(48, 0, 23, 8, 80))

\* C10: Dht11Readout::new is total and reads the four data bytes only:
\* humidity = integral_rh + decimal_rh/10 and temperature = integral_t +
\* decimal_t/10 for every raw data, whatever its checksum and its decimals.
C10_ConversionTotal ==
    /\ (pc = "test" /\ arg.fn = "Dht11Readout_new") => ENABLED TestConversion
    /\ (out.done /\ arg.fn = "Dht11Readout_new")
        => /\ out.reading.humidity = 10 * arg.raw.integral_rh_data + arg.raw.decimal_rh_data
           /\ out.reading.temperature = 10 * arg.raw.integral_t_data + arg.raw.decimal_t_data
           /\ out.reading = Dht11Readout_new([arg.raw EXCEPT !.checksum = 0])

\* (48, 0, 23, 8) with the test's checksum 0 gave 48.0 and 23.8; decimals
\* above 9 convert too
C10_Witness ==
    /\ out.done
    /\ arg.fn = "Dht11Readout_new"
    /\ arg.raw = RawOf(48, 0, 23, 8, 0)
    /\ out.reading = [humidity |-> 480, temperature |-> 238]
    /\ Dht11Readout_new(RawOf(48, 255, 23, 48, 79)) = [humidity |-> 735, temperature |-> 278]

(***************************************************************************)
(* The order of the handshake                                              *)
(***************************************************************************)
\* the calls of dht11_init_readout in the order of its statements
HandshakeOrder ==
    << << "set_mode_output", 0 >>,
       << "set_high", 0 >>,
       << "set_low", 0 >>,
       << "wait", DHT11_STARTING_TIME_US >>,
       << "set_high", 0 >>,
       << "wait", DHT11_WAIT_FOR_START_US >>,
       << "set_mode_input", 0 >>,
       << "wait_for_level", 0 >>,
       << "wait_for_level", 1 >>,
       << "wait_for_level", 0 >> >>

IsPrefix(s, t) == Len(s) <= Len(t) /\ \A i \in 1..Len(s) : s[i] = t[i]

\* the three level waits of the handshake have all returned Ok(())
HandshakeSucceeded == ok_waits >= 3

\* a pin level has been queried
Queried == last_seen # "none"

\* C11: the calls the handshake has made are at every moment the first calls of
\* the order set output mode, drive high, drive low, wait 20,000 us, drive
\* high, wait 10 us, set input mode, wait for low, wait for high, wait for
\* low, so each is made once and in this order (a level wait that times out
\* ends the sequence there); a handshake that succeeded has made all ten; and
\* the pin level is queried only in input mode, after the switch to it.
C11_HandshakeOrder ==
    /\ IsPrefix(ops, HandshakeOrder)
    /\ HandshakeSucceeded => ops = HandshakeOrder
    /\ pc \in {"w_poll", "w_time"} => mode = "input"
    /\ Queried => mode = "input" /\ Len(ops) >= 8 /\ ops[7] = << "set_mode_input", 0 >>

\* a handshake that has just succeeded, all ten calls made
C11_Witness ==
    /\ pc = "for_bits"
    /\ bit_idx = 0
    /\ ops = HandshakeOrder
    /\ Queried

(***************************************************************************)
(* The stages of dht11_perform_readout                                     *)
(***************************************************************************)
\* dht11_read_bit has been called and has not yet stored its bit
Sampling == caller = "read_bit" /\ pc \in {"w_entry", "w_poll", "w_time", "rb_start_time", "rb_elapsed"}

\* validation has run: it is the one step that ends in Ok or ChecksumError
Validated == pc = "done" /\ result \in {"Ok", "ChecksumError"}

\* C12: a readout is one pass through handshake, 40 bit samples, validation
\* and conversion: dht11_read_bit is called only after the handshake has made
\* all its calls and succeeded, and the handshake's calls never grow beyond
\* the one pass; the k-th call of dht11_read_bit fills index k-1, and there
\* are at most 40; the raw frame is built only when exactly 40 bits have been
\* classified by 40 calls; and a reading exists only for a raw frame whose
\* checksum test succeeded.
C12_LinearSequence ==
    /\ read_bit_calls > 0 => HandshakeSucceeded /\ ops = HandshakeOrder
    /\ Len(ops) <= Len(HandshakeOrder)
    /\ read_bit_calls <= NUM_BITS
    /\ read_bit_calls = (IF Sampling \/ (pc = "done" /\ result \in {"Timeout", "panic"} /\ caller = "read_bit")
                         THEN bit_idx + 1 ELSE bit_idx)
    /\ pc = "validate" => bit_idx = NUM_BITS /\ read_bit_calls = NUM_BITS
    /\ raw_data # NoRaw => Validated
    /\ Validated => /\ bit_idx = NUM_BITS
                    /\ read_bit_calls = NUM_BITS
                    /\ raw_data = Dht11RawData_new(bits)
    /\ readout # NoReadout => Validated /\ is_checksum_correct(raw_data) /\ result = "Ok"
    /\ result = "Ok" => readout = Dht11Readout_new(raw_data)

\* a readout that went through all four stages to a reading
C12_Witness ==
    /\ pc = "done"
    /\ result = "Ok"
    /\ read_bit_calls = NUM_BITS
    /\ ops = HandshakeOrder
    /\ readout # NoReadout

(***************************************************************************)
(* The first failure ends the readout                                      *)
(***************************************************************************)
\* the stage in which the program is: the handshake until its third wait has
\* returned, bit sampling while a call of dht11_read_bit is under way
InHandshake == caller = "init" /\ read_bit_calls = 0 /\ step \in 1..3
InSampling == caller = "read_bit" /\ read_bit_calls = bit_idx + 1 /\ step \in 1..2

\* a step that leaves every local of the program, the pin and the record of its
\* calls as they are: no pin query, no clock read, no bit stored
NoFurtherOperation == UNCHANGED << progVars, logVars, mode, line >>

\* C13: Timeout arises only in the clock test of a level wait, of the handshake
\* or of a bit sample, and ends the call at once; once the result is Timeout
\* the program makes no pin or clock operation and samples no bit, and no raw
\* frame or reading is built; ChecksumError arises only in validation.
C13_FirstFailureEnds ==
    /\ [](result = "Timeout" =>
            /\ pc = "done"
            /\ InHandshake \/ InSampling
            /\ raw_data = NoRaw
            /\ readout = NoReadout)
    /\ [][(result # "Timeout" /\ result' = "Timeout") =>
            /\ pc = "w_time"
            /\ TimedOut(now, timeout)
            /\ pc' = "done"
            /\ UNCHANGED << logVars, bits, bit_idx, mode, line >>]_vars
    /\ [][result = "Timeout" => NoFurtherOperation /\ result' = "Timeout"]_vars
    /\ [][(result # "ChecksumError" /\ result' = "ChecksumError") => pc = "validate"]_vars

\* a Timeout in the middle of the bits: some bits sampled, the rest never
C13_Witness ==
    /\ result = "Timeout"
    /\ caller = "read_bit"
    /\ bit_idx > 0
    /\ bit_idx < NUM_BITS

(***************************************************************************)
(* The assertion of convert_time_to_bit                                    *)
(***************************************************************************)
\* C14, as claimed: the elapsed time dht11_read_bit computes and hands to
\* convert_time_to_bit is always below 1,000,000 microseconds, so that
\* assert!(time < 1000000) never fails.
C14_ElapsedBelowLimit ==
    /\ elapsed_time < TIME_LIMIT_US
    /\ result # "panic"

(***************************************************************************)
(* What the host does to the pin                                           *)
(***************************************************************************)
IsDrive(op) == op[1] \in {"set_high", "set_low"}
IsPinControl(op) == op[1] \in {"set_high", "set_low", "set_mode_output", "set_mode_input"}

\* the mode and drive calls made so far, and the latest drive call
PinControls == SelectSeq(ops, IsPinControl)
LastDriven == LET d == SelectSeq(ops, IsDrive) IN IF d = << >> THEN "none" ELSE d[Len(d)][1]

\* a step of wait_for_level
WaitStep == pc \in {"w_entry", "w_poll", "w_time"} /\ Program

\* C15: a step of wait_for_level changes neither the pin's mode nor the level
\* on the line and makes no mode or drive call (it only queries the level);
\* from the switch to input mode on, no step of the program makes a mode or
\* drive call or changes the mode or the line; so whenever the call has ended,
\* with whatever result, the pin is in input mode and the last level the host
\* drove is high.
C15_OnlyQueriesAfterInput ==
    /\ [][WaitStep => /\ UNCHANGED << mode, line >>
                      /\ PinControls' = PinControls]_vars
    /\ [][(mode = "input" /\ Program) => /\ UNCHANGED << mode, line >>
                                         /\ PinControls' = PinControls]_vars
    /\ [](pc = "done" => mode = "input" /\ LastDriven = "set_high")
    /\ [](mode = "input" => LastDriven = "set_high")

\* a call that ended after the pin was queried through all the bits
C15_Witness ==
    /\ pc = "done"
    /\ result = "ChecksumError"
    /\ mode = "input"
    /\ last_seen = "low"
    /\ LastDriven = "set_high"

(***************************************************************************)
(* The order of the bits                                                   *)
(***************************************************************************)
\* the bytes the sensor transmitted, first transmitted bit weighing most
SentBytes ==
    [ integral_rh_data |-> RefPack(frame, 0),
      decimal_rh_data  |-> RefPack(frame, 8),
      integral_t_data  |-> RefPack(frame, 16),
      decimal_t_data   |-> RefPack(frame, 24),
      checksum         |-> RefPack(frame, 32) ]

\* C16: the bit classified by the k-th call of dht11_read_bit (k counted from
\* 0) is written to index k and to no other index, so that after k+1 calls the
\* array holds the bits in the order the sensor sent them (when every pulse
\* had its nominal length, exactly the transmitted bits) and nothing yet after
\* them; the array is read once, by validation, which makes the first sampled
\* bit the bit of weight 128 of the integral-humidity byte and the 40th the
\* bit of weight 1 of the checksum byte, each byte first bit highest.
C16_BitsKeepOrder ==
    /\ [][(pc = "rb_elapsed" /\ pc' = "for_bits") =>
            /\ read_bit_calls = bit_idx + 1
            /\ bit_idx' = bit_idx + 1
            /\ bits' = [bits EXCEPT ![read_bit_calls] = convert_time_to_bit(now - start_time)]]_vars
    /\ [][bits' # bits => pc = "rb_elapsed"]_vars
    /\ [][raw_data' # raw_data => pc = "validate" /\ pc' = "done"]_vars
    /\ [](\A i \in 1..NUM_BITS : i > bit_idx => bits[i] = FALSE)
    /\ [](~slow_used => \A i \in 1..bit_idx : bits[i] = frame[i])
    /\ [](Validated =>
            /\ raw_data.integral_rh_data = RefPack(bits, 0)
            /\ raw_data.decimal_rh_data = RefPack(bits, 8)
            /\ raw_data.integral_t_data = RefPack(bits, 16)
            /\ raw_data.decimal_t_data = RefPack(bits, 24)
            /\ raw_data.checksum = RefPack(bits, 32)
            /\ bits[1] <=> raw_data.integral_rh_data >= 128
            /\ bits[NUM_BITS] <=> raw_data.checksum % 2 = 1
            /\ ~slow_used => raw_data = SentBytes)

\* a validated frame whose bytes differ, so that a change of order would show
C16_Witness ==
    /\ Validated
    /\ ~slow_used
    /\ raw_data = SentBytes
    /\ raw_data.integral_rh_data = 170
    /\ raw_data.decimal_rh_data = 85
    /\ bits[1]
    /\ ~bits[2]

(***************************************************************************)
(* Where the line stands between the stages                                *)
(***************************************************************************)
\* the edges the sensor has made when k bits have been sent in full: the
\* three that answer the handshake and a rise and a fall for each bit
EdgesAfterBits(k) == 3 + 2 * k

ConstantLevel == mode = "input" /\ edges = 0

\* the level the n-th successful wait of a readout waits for: low, high, low
\* in the handshake, then high, low for each bit
LevelOfWait(n) == n % 2 = 0

\* C18: while the line keeps one level from the switch to input mode on, no
\* bit is sampled and the call does not end with a reading, ChecksumError or
\* a panic; if it has ended it ended with Timeout, in the handshake's first
\* wait on a line that stayed high and in its second on a line held low; with
\* the clock advancing the wait does end: either the line changes or Timeout
\* is returned.  Every wait that returns Ok(()) has seen the level it waited
\* for, the n-th one low for odd n and high for even n, and a call that got to
\* validation has had 3 + 2 * 40 such waits, met by as many edges of the line.
C18_ConstantLineTimesOut ==
    /\ [](ConstantLevel =>
            /\ read_bit_calls = 0
            /\ bit_idx = 0
            /\ result \in {"none", "Timeout"}
            /\ raw_data = NoRaw
            /\ readout = NoReadout)
    /\ []((ConstantLevel /\ pc = "done") =>
            /\ result = "Timeout"
            /\ caller = "init"
            /\ step = (IF stuck THEN 2 ELSE 1))
    /\ [][ok_waits' = ok_waits + 1 =>
            /\ level = LevelOfWait(ok_waits')
            /\ last_seen' = (IF level THEN "high" ELSE "low")
            /\ (ok_waits' > 1 => edges >= ok_waits')]_vars
    /\ [](Validated => ok_waits = 3 + 2 * NUM_BITS /\ edges = NumEdges)
    /\ <>(edges > 0 \/ result = "Timeout")

\* a line held low: the first wait returned at once, the second timed out
C18_Witness ==
    /\ pc = "done"
    /\ ConstantLevel
    /\ stuck
    /\ result = "Timeout"
    /\ step = 2
    /\ ok_waits = 1

\* a silent sensor on a line that stays high: the first wait timed out
C18_WitnessHigh ==
    /\ pc = "done"
    /\ ConstantLevel
    /\ ~stuck
    /\ result = "Timeout"
    /\ step = 1
    /\ ok_waits = 0

====
